---- MODULE Spec2Model ----
(***************************************************************************)
(* Campus-Navigation-System: the step-trace engines of the backend.        *)
(*                                                                         *)
(*   src/backend/src/sort.hpp    QuickSortVisualizer  (Lomuto quicksort    *)
(*                               over truncated Euclidean distances)       *)
(*   src/backend/src/search.hpp  BinarySearchVisualizer (binary search     *)
(*                               over the nodes sorted by name)            *)
(*                                                                         *)
(* Indices are the C++ ones (0-based); a vector v is a sequence and v[k]   *)
(* of the code is v[k + 1] here.  A std::string is the sequence of its     *)
(* character codes.  The Graph class (graph.hpp) is not part of the        *)
(* sources at hand: getNodes/getNode/size are modelled from its described  *)
(* interface.                                                              *)
(***************************************************************************)
EXTENDS Integers, Sequences, FiniteSets

VARIABLES
    graph,            \* the Graph both entry points receive (read-only)
    engine,           \* which of the two visualizers this run exercises
    qsVisualizer,     \* QuickSortVisualizer: steps, stepNum, distances, names
    referenceNodeId,  \* sort(): parameter
    callStack,        \* sort(): the quicksort() frames, innermost last
    part,             \* partition(): pivot, i, j and its position
    sortPc,           \* sort(): "idle" | "running"
    sortResult,       \* what the last sort() call gave its caller
    bsVisualizer,     \* BinarySearchVisualizer: steps, stepNum
    searchQuery,      \* search(): parameter
    sortedNodes,      \* search(): locals
    left,
    right,
    mid,
    foundIndex,
    searchPc,         \* search(): "idle" | "loop" | "compare"
    searchResult      \* what the last search() call gave its caller

sortVars == <<qsVisualizer, referenceNodeId, callStack, part, sortPc, sortResult>>
searchVars == <<bsVisualizer, searchQuery, sortedNodes, left, right, mid,
                foundIndex, searchPc, searchResult>>
vars == <<graph, engine, sortVars, searchVars>>

----------------------------------------------------------------------------
(* Bounds of the model *)

MaxNodes == 4
\* a visualizer whose step counter has reached the bound is not called again
MaxSortStepNum == 9
MaxSearchStepNum == 4

\* coordinates the nodes of a sorted graph are placed on
Positions == {<<0, 0>>, <<1, 1>>, <<2, 1>>}
\* names of the nodes of a searched graph ("a", "ab", "b") and the queries
Names == {<<1>>, <<1, 2>>, <<2>>}
Queries == Names \cup {<<>>, <<1, 1>>}

None == [none |-> TRUE]

----------------------------------------------------------------------------
(* Graph (graph.hpp): a vector of nodes, node k having id k *)

Node(id, name, x, y) == [id |-> id, name |-> name, type |-> "building", x |-> x, y |-> y]

size(g) == Len(g)

HasNode(g, id) == 0 <= id /\ id < Len(g)

getNode(g, id) == g[id + 1]

getNodes(g) == g

\* graphs for the quicksort runs: distinct names, any positions
PositionGraphs ==
    UNION {{[k \in 1..n |-> Node(k - 1, <<k>>, p[k][1], p[k][2])] : p \in [1..n -> Positions]}
           : n \in 0..MaxNodes}

\* graphs for the binary search runs: any names (duplicates included)
NameGraphs ==
    UNION {{[k \in 1..n |-> Node(k - 1, nm[k], k - 1, 0)] : nm \in [1..n -> Names]}
           : n \in 0..MaxNodes}

----------------------------------------------------------------------------
(* QuickSortVisualizer *)

\* QuickSortVisualizer() : stepNum(0) {}
NewQuickSortVisualizer == [steps |-> <<>>, stepNum |-> 0, distances |-> <<>>, names |-> <<>>]

\* static_cast<int>(sqrt(n)) for a small non-negative integer n
TruncSqrt(n) == CHOOSE d \in 0..n : d * d <= n /\ n < (d + 1) * (d + 1)

Distance(a, b) ==
    LET dx == a.x - b.x
        dy == a.y - b.y
    IN  TruncSqrt(dx * dx + dy * dy)

Swap(v, a, b) == [v EXCEPT ![a + 1] = v[b + 1], ![b + 1] = v[a + 1]]

\* recordStep that forgets stepNum++
SortRecordStepNoIncrement(v, action, explanation, pivotIndex, leftPointer, rightPointer, low, high) ==
    [v EXCEPT !.steps = Append(@, [stepNum |-> v.stepNum,
                                   action |-> action,
                                   explanation |-> explanation,
                                   array |-> v.distances,
                                   names |-> v.names,
                                   pivotIndex |-> pivotIndex,
                                   leftPointer |-> leftPointer,
                                   rightPointer |-> rightPointer,
                                   low |-> low,
                                   high |-> high])]

\* recordStep whose steps refer to the working arrays instead of copying
\* them: every step shows what the arrays hold now
SortRecordStepAliased(v, action, explanation, pivotIndex, leftPointer, rightPointer, low, high) ==
    [v EXCEPT !.steps = Append([k \in 1..Len(v.steps) |->
                                  [v.steps[k] EXCEPT !.array = v.distances,
                                                     !.names = v.names]],
                               [stepNum |-> v.stepNum,
                                action |-> action,
                                explanation |-> explanation,
                                array |-> v.distances,
                                names |-> v.names,
                                pivotIndex |-> pivotIndex,
                                leftPointer |-> leftPointer,
                                rightPointer |-> rightPointer,
                                low |-> low,
                                high |-> high]),
              !.stepNum = @ + 1]

SortRecordStep(v, action, explanation, pivotIndex, leftPointer, rightPointer, low, high) ==
    [v EXCEPT !.steps = Append(@, [stepNum |-> v.stepNum,
                                   action |-> action,
                                   explanation |-> explanation,
                                   array |-> v.distances,
                                   names |-> v.names,
                                   pivotIndex |-> pivotIndex,
                                   leftPointer |-> leftPointer,
                                   rightPointer |-> rightPointer,
                                   low |-> low,
                                   high |-> high]),
              !.stepNum = @ + 1]

\* the ids sort() visits, in order: 0 .. totalNodes-1 without the reference
OtherIds(g, ref) == SelectSeq([k \in 1..size(g) |-> k - 1], LAMBDA id : id # ref)

\* sort() that records its "Initial array" step before it looks the
\* reference node up
SortEntryRecordsFirst(v, g, ref) ==
    LET cleared == [v EXCEPT !.distances = <<>>, !.names = <<>>]
        ids == OtherIds(g, ref)
    IN  IF ~HasNode(g, ref)
        THEN [thrown |-> TRUE,
              v |-> SortRecordStep(cleared, "Initial array", <<0, <<>>>>, -1, -1, -1, 0, -1)]
        ELSE LET filled == [cleared EXCEPT
                              !.distances = [k \in 1..Len(ids) |->
                                               Distance(getNode(g, ids[k]), getNode(g, ref))],
                              !.names = [k \in 1..Len(ids) |-> getNode(g, ids[k]).name]]
             IN  [thrown |-> FALSE,
                  v |-> SortRecordStep(filled, "Initial array",
                                       <<Len(filled.distances), getNode(g, ref).name>>,
                                       -1, -1, -1, 0, Len(filled.distances) - 1)]

\* sort(), lines 123-144: the outcome of the prologue on visualizer v
SortEntry(v, g, ref) ==
    LET cleared == [v EXCEPT !.distances = <<>>, !.names = <<>>]
    IN  IF ~HasNode(g, ref)
        THEN [thrown |-> TRUE, v |-> cleared]
        ELSE LET ids == OtherIds(g, ref)
                 filled == [cleared EXCEPT
                              !.distances = [k \in 1..Len(ids) |->
                                               Distance(getNode(g, ids[k]), getNode(g, ref))],
                              !.names = [k \in 1..Len(ids) |-> getNode(g, ids[k]).name]]
             IN  [thrown |-> FALSE,
                  v |-> SortRecordStep(filled, "Initial array",
                                       <<Len(filled.distances), getNode(g, ref).name>>,
                                       -1, -1, -1, 0, Len(filled.distances) - 1)]

Frame(low, high) == [low |-> low, high |-> high, pc |-> "test", pivotIndex |-> -1]

NoPartition == [pc |-> "none", pivot |-> -1, i |-> -1, j |-> -1]

Top == callStack[Len(callStack)]

SetTop(f) == [callStack EXCEPT ![Len(callStack)] = f]

Pop == SubSeq(callStack, 1, Len(callStack) - 1)

\* sort(), lines 155-171
SortResponse(v, g, ref) ==
    [algorithm |-> "quicksort",
     referenceNode |-> ref,
     referenceName |-> getNode(g, ref).name,
     sortedLocations |-> [k \in 1..Len(v.distances) |->
                            [name |-> v.names[k], distance |-> v.distances[k]]],
     steps |-> v.steps]

SortBody(v, ref) ==
    LET e == SortEntry(v, graph, ref)
    IN  /\ qsVisualizer' = e.v
        /\ IF e.thrown
           THEN /\ sortResult' = [error |-> "out_of_range"]
                /\ UNCHANGED <<referenceNodeId, callStack, part, sortPc>>
           ELSE /\ referenceNodeId' = ref
                /\ callStack' = IF e.v.distances # <<>>
                                THEN <<Frame(0, Len(e.v.distances) - 1)>>
                                ELSE <<>>
                /\ part' = NoPartition
                /\ sortPc' = "running"
                /\ sortResult' = None

\* sortLocationsByDistance(graph, referenceNodeId): a visualizer of its own
SortLocationsByDistance(ref) ==
    /\ engine = "quicksort"
    /\ sortPc = "idle"
    /\ SortBody(NewQuickSortVisualizer, ref)
    /\ UNCHANGED <<graph, engine, searchVars>>

\* visualizer.sort(graph, referenceNodeId) on the visualizer already there
Sort(ref) ==
    /\ engine = "quicksort"
    /\ sortPc = "idle"
    /\ qsVisualizer.stepNum < MaxSortStepNum
    /\ SortBody(qsVisualizer, ref)
    /\ UNCHANGED <<graph, engine, searchVars>>

\* the comparison with <= for <
LessOrEqual(a, b) == a <= b

\* the comparison turned round
Greater(a, b) == a > b

\* distances[j] < pivot (line 81)
Less(a, b) == a < b

\* the swap that leaves the names where they are
SwapDistancesOnly(v, a, b) == [v EXCEPT !.distances = Swap(@, a, b)]

\* swap(distances[a], distances[b]); swap(names[a], names[b]) (lines 84-85, 94-95)
SwapBoth(v, a, b) == [v EXCEPT !.distances = Swap(@, a, b), !.names = Swap(@, a, b)]

InQuicksort == sortPc = "running" /\ callStack # <<>> /\ part.pc = "none"

\* quicksort(low, high) with low >= high: nothing to do (line 107)
QuicksortSkip ==
    /\ InQuicksort
    /\ Top.pc = "test"
    /\ ~(Top.low < Top.high)
    /\ callStack' = Pop
    /\ UNCHANGED <<graph, engine, qsVisualizer, referenceNodeId, part, sortPc,
                   sortResult, searchVars>>

\* quicksort(low, high) with low < high: record "Partition", call partition (lines 107-112)
QuicksortPartition ==
    /\ InQuicksort
    /\ Top.pc = "test"
    /\ Top.low < Top.high
    /\ qsVisualizer' = SortRecordStep(qsVisualizer, "Partition", <<Top.low, Top.high>>,
                                      -1, -1, -1, Top.low, Top.high)
    /\ callStack' = SetTop([Top EXCEPT !.pc = "partition"])
    /\ part' = [NoPartition EXCEPT !.pc = "choose"]
    /\ UNCHANGED <<graph, engine, referenceNodeId, sortPc, sortResult, searchVars>>

\* partition(low, high), lines 66-73
PartitionChoosePivot ==
    /\ sortPc = "running"
    /\ part.pc = "choose"
    /\ LET low == Top.low
           high == Top.high
           pivot == qsVisualizer.distances[high + 1]
           pivotName == qsVisualizer.names[high + 1]
       IN  /\ qsVisualizer' = SortRecordStep(qsVisualizer, "Choose pivot",
                                             <<pivot, pivotName, high>>,
                                             high, -1, -1, low, high)
           /\ part' = [pc |-> "loop", pivot |-> pivot, i |-> low - 1, j |-> low]
    /\ UNCHANGED <<graph, engine, referenceNodeId, callStack, sortPc, sortResult,
                   searchVars>>

\* partition(low, high), lines 75-79: the loop test and the "Comparing" step
PartitionCompare ==
    /\ sortPc = "running"
    /\ part.pc = "loop"
    /\ part.j < Top.high
    /\ qsVisualizer' = SortRecordStep(qsVisualizer, "Comparing",
                                      <<qsVisualizer.distances[part.j + 1],
                                        qsVisualizer.names[part.j + 1], part.pivot>>,
                                      Top.high, part.i, part.j, Top.low, Top.high)
    /\ part' = [part EXCEPT !.pc = "test"]
    /\ UNCHANGED <<graph, engine, referenceNodeId, callStack, sortPc, sortResult,
                   searchVars>>

\* partition(low, high), lines 81-91 and j++: the element is smaller than the pivot
PartitionSwap ==
    /\ sortPc = "running"
    /\ part.pc = "test"
    /\ Less(qsVisualizer.distances[part.j + 1], part.pivot)
    /\ LET i == part.i + 1
           j == part.j
           swapped == SwapBoth(qsVisualizer, i, j)
       IN  /\ qsVisualizer' = SortRecordStep(swapped, "Swap",
                                             <<swapped.names[i + 1], swapped.names[j + 1]>>,
                                             Top.high, i, j, Top.low, Top.high)
           /\ part' = [part EXCEPT !.pc = "loop", !.i = i, !.j = j + 1]
    /\ UNCHANGED <<graph, engine, referenceNodeId, callStack, sortPc, sortResult,
                   searchVars>>

\* partition(low, high), line 81 false and j++
PartitionKeep ==
    /\ sortPc = "running"
    /\ part.pc = "test"
    /\ ~Less(qsVisualizer.distances[part.j + 1], part.pivot)
    /\ part' = [part EXCEPT !.pc = "loop", !.j = part.j + 1]
    /\ UNCHANGED <<graph, engine, qsVisualizer, referenceNodeId, callStack, sortPc,
                   sortResult, searchVars>>

\* partition(low, high), lines 94-102: place the pivot, return i + 1 to quicksort
PartitionPlacePivot ==
    /\ sortPc = "running"
    /\ part.pc = "loop"
    /\ ~(part.j < Top.high)
    /\ LET p == part.i + 1
           swapped == SwapBoth(qsVisualizer, p, Top.high)
       IN  /\ qsVisualizer' = SortRecordStep(swapped, "Place pivot",
                                             <<swapped.names[p + 1], p>>,
                                             p, -1, -1, Top.low, Top.high)
           /\ callStack' = SetTop([Top EXCEPT !.pc = "left", !.pivotIndex = p])
    /\ part' = NoPartition
    /\ UNCHANGED <<graph, engine, referenceNodeId, sortPc, sortResult, searchVars>>

\* quicksort(low, pivotIndex - 1) (line 114)
QuicksortLeft ==
    /\ InQuicksort
    /\ Top.pc = "left"
    /\ callStack' = Append(SetTop([Top EXCEPT !.pc = "right"]),
                           Frame(Top.low, Top.pivotIndex - 1))
    /\ UNCHANGED <<graph, engine, qsVisualizer, referenceNodeId, part, sortPc,
                   sortResult, searchVars>>

\* quicksort(pivotIndex + 1, high) (line 115)
QuicksortRight ==
    /\ InQuicksort
    /\ Top.pc = "right"
    /\ callStack' = Append(SetTop([Top EXCEPT !.pc = "return"]),
                           Frame(Top.pivotIndex + 1, Top.high))
    /\ UNCHANGED <<graph, engine, qsVisualizer, referenceNodeId, part, sortPc,
                   sortResult, searchVars>>

\* quicksort returns after its two recursive calls (line 117)
QuicksortReturn ==
    /\ InQuicksort
    /\ Top.pc = "return"
    /\ callStack' = Pop
    /\ UNCHANGED <<graph, engine, qsVisualizer, referenceNodeId, part, sortPc,
                   sortResult, searchVars>>

\* sort(), lines 151-180: the "Sorted!" step and the response
SortFinish ==
    /\ sortPc = "running"
    /\ callStack = <<>>
    /\ LET v == SortRecordStep(qsVisualizer, "Sorted!",
                               <<getNode(graph, referenceNodeId).name>>,
                               -1, -1, -1, 0, Len(qsVisualizer.distances) - 1)
       IN  /\ qsVisualizer' = v
           /\ sortResult' = SortResponse(v, graph, referenceNodeId)
    /\ sortPc' = "idle"
    /\ referenceNodeId' = -1
    /\ UNCHANGED <<graph, engine, callStack, part, searchVars>>

SortNext ==
    \/ \E ref \in 0..size(graph) : SortLocationsByDistance(ref)
    \/ \E ref \in 0..size(graph) : Sort(ref)
    \/ QuicksortSkip
    \/ QuicksortPartition
    \/ PartitionChoosePivot
    \/ PartitionCompare
    \/ PartitionSwap
    \/ PartitionKeep
    \/ PartitionPlacePivot
    \/ QuicksortLeft
    \/ QuicksortRight
    \/ QuicksortReturn
    \/ SortFinish

----------------------------------------------------------------------------
(* BinarySearchVisualizer *)

\* BinarySearchVisualizer() : stepNum(0) {}
NewBinarySearchVisualizer == [steps |-> <<>>, stepNum |-> 0]

\* recordStep with left and right taken in the wrong order
SearchRecordStepSwapped(v, action, explanation, l, r, m, compareNode, found) ==
    [v EXCEPT !.steps = Append(@, [stepNum |-> v.stepNum,
                                   action |-> action,
                                   explanation |-> explanation,
                                   left |-> r,
                                   right |-> l,
                                   mid |-> m,
                                   compareNode |-> compareNode,
                                   found |-> found]),
              !.stepNum = @ + 1]

SearchRecordStep(v, action, explanation, l, r, m, compareNode, found) ==
    [v EXCEPT !.steps = Append(@, [stepNum |-> v.stepNum,
                                   action |-> action,
                                   explanation |-> explanation,
                                   left |-> l,
                                   right |-> r,
                                   mid |-> m,
                                   compareNode |-> compareNode,
                                   found |-> found]),
              !.stepNum = @ + 1]

\* std::string::compare: negative, zero or positive (character by character,
\* then by length)
RECURSIVE Compare(_, _)
Compare(a, b) ==
    IF a = <<>> \/ b = <<>>
    THEN Len(a) - Len(b)
    ELSE IF Head(a) # Head(b)
         THEN Head(a) - Head(b)
         ELSE Compare(Tail(a), Tail(b))

\* the comparator of a descending sort
NameGreater(a, b) == Compare(a.name, b.name) > 0

\* a.name < b.name (line 59)
NameLess(a, b) == Compare(a.name, b.name) < 0

\* what std::sort with NameLess may leave of a set of nodes: the nodes ordered
\* by name, those of equal name in any order (std::sort is not stable)
RECURSIVE SortedByName(_)
SortedByName(nodes) ==
    IF nodes = {}
    THEN {<<>>}
    ELSE LET first == {m \in nodes : \A o \in nodes : ~NameLess(o, m)}
         IN  UNION {{<<m>> \o rest : rest \in SortedByName(nodes \ {m})} : m \in first}

Elements(v) == {v[k] : k \in 1..Len(v)}

\* int right = sortedNodes.size() - 1 (line 62)
InitialRight(n) == n - 1

\* left + (right - left) / 2 (line 71)
Mid(l, r) == l + (r - l) \div 2

\* search(), lines 114-140
SearchResponse(v, query, nodes, found) ==
    [algorithm |-> "binary_search",
     query |-> query,
     found |-> (found # -1),
     result |-> IF found # -1 THEN nodes[found + 1] ELSE None,
     sortedArray |-> [k \in 1..Len(nodes) |-> [id |-> nodes[k].id, name |-> nodes[k].name]],
     steps |-> v.steps]

\* search(), lines 57-67
SearchBody(v, query) ==
    /\ \E s \in SortedByName(Elements(getNodes(graph))) : sortedNodes' = s
    /\ searchQuery' = query
    /\ left' = 0
    /\ right' = InitialRight(size(graph))
    /\ foundIndex' = -1
    /\ mid' = -1
    /\ bsVisualizer' = SearchRecordStep(v, "Starting binary search", <<query>>,
                                        0, InitialRight(size(graph)), -1, -1, FALSE)
    /\ searchPc' = "loop"
    /\ searchResult' = None

\* searchBuilding(graph, searchQuery): a visualizer of its own
SearchBuilding(query) ==
    /\ engine = "binary_search"
    /\ searchPc = "idle"
    /\ SearchBody(NewBinarySearchVisualizer, query)
    /\ UNCHANGED <<graph, engine, sortVars>>

\* visualizer.search(graph, searchQuery) on the visualizer already there
Search(query) ==
    /\ engine = "binary_search"
    /\ searchPc = "idle"
    /\ bsVisualizer.stepNum < MaxSearchStepNum
    /\ SearchBody(bsVisualizer, query)
    /\ UNCHANGED <<graph, engine, sortVars>>

\* while (left <= right): mid and the "Checking middle element" step (lines 69-77)
SearchCheck ==
    /\ searchPc = "loop"
    /\ left <= right
    /\ LET m == Mid(left, right)
       IN  /\ mid' = m
           /\ bsVisualizer' = SearchRecordStep(bsVisualizer, "Checking middle element",
                                               <<left, right, m, sortedNodes[m + 1].name>>,
                                               left, right, m, m, FALSE)
    /\ searchPc' = "compare"
    /\ UNCHANGED <<graph, engine, sortVars, searchQuery, sortedNodes, left, right,
                   foundIndex, searchResult>>

\* comparison == 0: "Found!", break, the response (lines 81-87, 114-148)
SearchFound ==
    /\ searchPc = "compare"
    /\ Compare(searchQuery, sortedNodes[mid + 1].name) = 0
    /\ LET v == SearchRecordStep(bsVisualizer, "Found!",
                                 <<searchQuery, sortedNodes[mid + 1].name, mid>>,
                                 left, right, mid, mid, TRUE)
       IN  /\ bsVisualizer' = v
           /\ searchResult' = SearchResponse(v, searchQuery, sortedNodes, mid)
    /\ foundIndex' = -1
    /\ mid' = -1
    /\ left' = 0
    /\ right' = 0
    /\ sortedNodes' = <<>>
    /\ searchQuery' = <<>>
    /\ searchPc' = "idle"
    /\ UNCHANGED <<graph, engine, sortVars>>

\* comparison < 0: "Search left half", right = mid - 1 (lines 89-96)
SearchLeft ==
    /\ searchPc = "compare"
    /\ Compare(searchQuery, sortedNodes[mid + 1].name) < 0
    /\ bsVisualizer' = SearchRecordStep(bsVisualizer, "Search left half",
                                        <<searchQuery, sortedNodes[mid + 1].name>>,
                                        left, mid - 1, mid, mid, FALSE)
    /\ right' = mid - 1
    /\ searchPc' = "loop"
    /\ UNCHANGED <<graph, engine, sortVars, searchQuery, sortedNodes, left, mid,
                   foundIndex, searchResult>>

\* comparison > 0: "Search right half", left = mid + 1 (lines 97-104)
SearchRight ==
    /\ searchPc = "compare"
    /\ Compare(searchQuery, sortedNodes[mid + 1].name) > 0
    /\ bsVisualizer' = SearchRecordStep(bsVisualizer, "Search right half",
                                        <<searchQuery, sortedNodes[mid + 1].name>>,
                                        mid + 1, right, mid, mid, FALSE)
    /\ left' = mid + 1
    /\ searchPc' = "loop"
    /\ UNCHANGED <<graph, engine, sortVars, searchQuery, sortedNodes, right, mid,
                   foundIndex, searchResult>>

\* the loop ends with foundIndex == -1: "Not found", the response (lines 108-148)
SearchNotFound ==
    /\ searchPc = "loop"
    /\ ~(left <= right)
    /\ LET v == IF foundIndex = -1
                THEN SearchRecordStep(bsVisualizer, "Not found", <<searchQuery>>,
                                      left, right, -1, -1, FALSE)
                ELSE bsVisualizer
       IN  /\ bsVisualizer' = v
           /\ searchResult' = SearchResponse(v, searchQuery, sortedNodes, foundIndex)
    /\ foundIndex' = -1
    /\ mid' = -1
    /\ left' = 0
    /\ right' = 0
    /\ sortedNodes' = <<>>
    /\ searchQuery' = <<>>
    /\ searchPc' = "idle"
    /\ UNCHANGED <<graph, engine, sortVars>>

SearchNext ==
    \/ \E query \in Queries : SearchBuilding(query)
    \/ \E query \in Queries : Search(query)
    \/ SearchCheck
    \/ SearchFound
    \/ SearchLeft
    \/ SearchRight
    \/ SearchNotFound

----------------------------------------------------------------------------
(* The program *)

\* The two visualizers share nothing, so a behaviour exercises one of them:
\* engine says which, and the graph is one of the kind that visualizer reads
\* (positions for the distances, names for the search).  A call through the
\* free function works on a new visualizer; a call of the method works on the
\* one the last call left.
Init ==
    /\ \/ engine = "quicksort" /\ graph \in PositionGraphs
       \/ engine = "binary_search" /\ graph \in NameGraphs
    /\ qsVisualizer = NewQuickSortVisualizer
    /\ referenceNodeId = -1
    /\ callStack = <<>>
    /\ part = NoPartition
    /\ sortPc = "idle"
    /\ sortResult = None
    /\ bsVisualizer = NewBinarySearchVisualizer
    /\ searchQuery = <<>>
    /\ sortedNodes = <<>>
    /\ left = 0
    /\ right = 0
    /\ mid = -1
    /\ foundIndex = -1
    /\ searchPc = "idle"
    /\ searchResult = None

Next == SortNext \/ SearchNext

Spec == Init /\ [][Next]_vars

----------------------------------------------------------------------------
(* Properties *)

IsSortResponse == "algorithm" \in DOMAIN sortResult

IsSortError == "error" \in DOMAIN sortResult

IsSearchResponse == "algorithm" \in DOMAIN searchResult

SortSteps == qsVisualizer.steps

SearchSteps == bsVisualizer.steps

CountAction(steps, action) == Cardinality({k \in 1..Len(steps) : steps[k].action = action})

\* d is the Euclidean distance between nodes a and b, truncated to an integer
IsTruncatedDistance(d, a, b) ==
    LET sq == (a.x - b.x) * (a.x - b.x) + (a.y - b.y) * (a.y - b.y)
    IN  d >= 0 /\ d * d <= sq /\ sq < (d + 1) * (d + 1)

\* nodes a and b are at the same truncated distance from node c
SameTruncatedDistance(a, b, c) ==
    \E d \in 0..(a.x + a.y + c.x + c.y) :
        IsTruncatedDistance(d, a, c) /\ IsTruncatedDistance(d, b, c)

\* C1: the sortedLocations sort() returns are non-decreasing by distance and
\* are a permutation of the (name, truncated Euclidean distance) pairs of the
\* nodes other than the reference: as many entries as other nodes, and every
\* such pair as often among the entries as among the nodes.
C1_SortedPermutation ==
    IsSortResponse =>
        LET loc == sortResult.sortedLocations
            ref == graph[sortResult.referenceNode + 1]
            others == {k \in 1..Len(graph) : k - 1 # sortResult.referenceNode}
            Has(e, k) == e.name = graph[k].name /\ IsTruncatedDistance(e.distance, graph[k], ref)
        IN  /\ \A k \in 1..Len(loc) - 1 : loc[k].distance <= loc[k + 1].distance
            /\ Len(loc) = Cardinality(others)
            /\ \A k \in others :
                 Cardinality({m \in 1..Len(loc) : Has(loc[m], k)})
                   = Cardinality({m \in others : /\ graph[m].name = graph[k].name
                                                  /\ SameTruncatedDistance(graph[m], graph[k], ref)})

\* a sort of three or more locations at two or more distances that had to swap
C1_Witness ==
    /\ IsSortResponse
    /\ Len(sortResult.sortedLocations) >= 3
    /\ sortResult.sortedLocations[1].distance < sortResult.sortedLocations[3].distance
    /\ \E k \in 1..Len(sortResult.steps) :
         /\ sortResult.steps[k].action = "Swap"
         /\ sortResult.steps[k].leftPointer # sortResult.steps[k].rightPointer

\* C2: search() answers found exactly when the query equals the name of some
\* node of the graph, and the result it then returns is a node of the graph
\* whose name is the query.
C2_FoundIffPresent ==
    IsSearchResponse =>
        /\ searchResult.found <=>
             \E k \in 1..Len(graph) : graph[k].name = searchResult.query
        /\ searchResult.found =>
             /\ searchResult.result.name = searchResult.query
             /\ \E k \in 1..Len(graph) : graph[k] = searchResult.result
        /\ ~searchResult.found => searchResult.result = None

\* a query found after the range was narrowed at least once
C2_Witness ==
    /\ IsSearchResponse
    /\ searchResult.found
    /\ Len(graph) >= 3
    /\ \E k \in 1..Len(searchResult.steps) : searchResult.steps[k].action = "Search right half"

\* the state partition() leaves when it returns to quicksort()
AfterPlacePivot == sortPc = "running" /\ callStack # <<>> /\ Top.pc = "left"

\* C3: every "Place pivot" step, with pivot index p over [low, high], shows an
\* array whose elements at low..p-1 are smaller than the one at p and whose
\* elements at p+1..high are at least the one at p, with low <= p <= high; and
\* when partition() returns, that step is the last one and shows the working
\* array.
C3_PartitionInvariant ==
    /\ \A k \in 1..Len(SortSteps) :
         SortSteps[k].action = "Place pivot" =>
           LET st == SortSteps[k]
               p == st.pivotIndex
           IN  /\ st.low <= p /\ p <= st.high
               /\ \A m \in st.low..(p - 1) : st.array[m + 1] < st.array[p + 1]
               /\ \A m \in (p + 1)..st.high : st.array[m + 1] >= st.array[p + 1]
    /\ AfterPlacePivot =>
         /\ SortSteps[Len(SortSteps)].action = "Place pivot"
         /\ SortSteps[Len(SortSteps)].array = qsVisualizer.distances
         /\ SortSteps[Len(SortSteps)].pivotIndex = Top.pivotIndex

\* the pivot placed with smaller elements before it and an equal one after it
C3_Witness ==
    /\ AfterPlacePivot
    /\ Top.low < Top.pivotIndex
    /\ Top.pivotIndex < Top.high
    /\ qsVisualizer.distances[Top.pivotIndex + 2] = qsVisualizer.distances[Top.pivotIndex + 1]

\* C4: every step a binary search records has left <= right + 1, and a mid
\* that is -1 or an index of the sorted array.
C4_SearchBounds ==
    \A k \in 1..Len(SearchSteps) :
        /\ SearchSteps[k].left <= SearchSteps[k].right + 1
        /\ SearchSteps[k].mid # -1 =>
             0 <= SearchSteps[k].mid /\ SearchSteps[k].mid < size(graph)

\* a search that narrowed the range until it was empty
C4_Witness ==
    /\ Len(graph) >= 3
    /\ \E k \in 1..Len(SearchSteps) :
         /\ SearchSteps[k].action = "Search left half"
         /\ SearchSteps[k].left = SearchSteps[k].right + 1
    /\ \E k \in 1..Len(SearchSteps) :
         /\ SearchSteps[k].action = "Search right half"
         /\ SearchSteps[k].right > SearchSteps[k].left

\* C5: in the trace a sort or a search returns, the k-th step (from 0) carries
\* step index k.
C5_StepIndices ==
    /\ IsSortResponse =>
         \A k \in 1..Len(sortResult.steps) : sortResult.steps[k].stepNum = k - 1
    /\ IsSearchResponse =>
         \A k \in 1..Len(searchResult.steps) : searchResult.steps[k].stepNum = k - 1

\* a trace of a sort that partitioned
C5_Witness ==
    /\ IsSortResponse
    /\ Len(sortResult.steps) >= 7
    /\ sortResult.steps[7].stepNum = 6

\* C6: during a quicksort run a step, once recorded, stays in the trace as it
\* is, whatever is swapped or recorded later; and a step that is recorded
\* shows the working distances and names of that moment.
C6_Snapshots ==
    [][/\ sortPc = "running" =>
            /\ Len(SortSteps') >= Len(SortSteps)
            /\ \A k \in 1..Len(SortSteps) : SortSteps'[k] = SortSteps[k]
       /\ (qsVisualizer'.stepNum # qsVisualizer.stepNum \/ SortSteps' # SortSteps)
            /\ SortSteps' # <<>> =>
            /\ SortSteps'[Len(SortSteps')].array = qsVisualizer'.distances
            /\ SortSteps'[Len(SortSteps')].names = qsVisualizer'.names]_vars

\* the working arrays have been swapped since the first step was recorded
C6_Witness ==
    /\ sortPc = "running"
    /\ SortSteps[1].array # qsVisualizer.distances
    /\ SortSteps[1].names # qsVisualizer.names

\* C7: a sort() call whose reference identifies no node ends at once with the
\* out-of-range error: no distance is computed, no step is recorded (the
\* trace is the one the visualizer had, empty for a new one) and no response
\* is given; a call that goes on has a reference that identifies a node.
C7_InvalidReference ==
    [][/\ (engine = "quicksort" /\ sortPc = "idle" /\ sortPc' = "idle") =>
            /\ IsSortError'
            /\ qsVisualizer'.distances = <<>>
            /\ \/ SortSteps' = SortSteps /\ qsVisualizer'.stepNum = qsVisualizer.stepNum
               \/ SortSteps' = <<>> /\ qsVisualizer'.stepNum = 0
       /\ (sortPc = "idle" /\ sortPc' = "running") =>
            /\ HasNode(graph, referenceNodeId')
            /\ ~IsSortError']_vars

\* a failed call on a visualizer that holds the trace of an earlier sort
C7_Witness ==
    /\ IsSortError
    /\ sortPc = "idle"
    /\ Len(graph) >= 2
    /\ SortSteps # <<>>

\* the "Choose pivot" step of the partition() call that last began
EntryStep ==
    SortSteps[CHOOSE k \in 1..Len(SortSteps) :
                /\ SortSteps[k].action = "Choose pivot"
                /\ \A m \in (k + 1)..Len(SortSteps) : SortSteps[m].action # "Choose pivot"]

\* the names of the elements at distance d in array[low..high], in order
NamesAt(array, names, low, high, d) ==
    SelectSeq([k \in 1..(high - low + 1) |-> IF array[low + k] = d THEN names[low + k] ELSE <<>>],
              LAMBDA n : n # <<>>)

\* C8 as stated: when partition(low, high) returns, the elements of any one
\* distance are in the order they had when it was entered.
C8_EqualKeepOrder ==
    AfterPlacePivot =>
        \A d \in {EntryStep.array[k] : k \in 1..Len(EntryStep.array)} :
            NamesAt(qsVisualizer.distances, qsVisualizer.names, Top.low, Top.high, d)
              = NamesAt(EntryStep.array, EntryStep.names, Top.low, Top.high, d)

\* C8 as amended: when partition(low, high) returns, the elements of any one
\* distance smaller than the pivot's are in the order they had when it was
\* entered.
C8_SmallerKeepOrder ==
    AfterPlacePivot =>
        \A d \in {EntryStep.array[k] : k \in 1..Len(EntryStep.array)} :
            d < qsVisualizer.distances[Top.pivotIndex + 1] =>
                NamesAt(qsVisualizer.distances, qsVisualizer.names, Top.low, Top.high, d)
                  = NamesAt(EntryStep.array, EntryStep.names, Top.low, Top.high, d)

\* partition() returns from a range with two elements of one distance smaller
\* than the pivot's
C8_Witness ==
    /\ AfterPlacePivot
    /\ \E a, b \in Top.low..Top.high :
         /\ a < b
         /\ qsVisualizer.distances[a + 1] = qsVisualizer.distances[b + 1]
         /\ qsVisualizer.distances[a + 1] < qsVisualizer.distances[Top.pivotIndex + 1]

\* C9: the trace search() returns ends with the one terminal step of the
\* outcome ("Not found" with left > right, mid -1, found false; or "Found!"
\* with found true and mid the index of the returned node) and no step before
\* the last one is a terminal step or has found true.
C9_OneTerminalStep ==
    IsSearchResponse =>
        LET t == searchResult.steps
            last == t[Len(t)]
        IN  /\ ~searchResult.found =>
                 /\ last.action = "Not found"
                 /\ last.left > last.right
                 /\ last.mid = -1
                 /\ ~last.found
            /\ searchResult.found =>
                 /\ last.action = "Found!"
                 /\ last.found
                 /\ searchResult.sortedArray[last.mid + 1].id = searchResult.result.id
            /\ \A k \in 1..Len(t) - 1 :
                 ~t[k].found /\ t[k].action \notin {"Found!", "Not found"}

\* C10: the trace a call returns holds the steps of that call only: it begins
\* with the call's "Initial array" / "Starting binary search" step at index 0
\* and holds no other such step.
C10_NoCarriedTrace ==
    /\ IsSortResponse =>
         /\ sortResult.steps[1].action = "Initial array"
         /\ sortResult.steps[1].stepNum = 0
         /\ CountAction(sortResult.steps, "Initial array") = 1
         /\ CountAction(sortResult.steps, "Sorted!") = 1
    /\ IsSearchResponse =>
         /\ searchResult.steps[1].action = "Starting binary search"
         /\ searchResult.steps[1].stepNum = 0
         /\ CountAction(searchResult.steps, "Starting binary search") = 1

====
